---- MODULE Spec2Model ----
(***************************************************************************)
(* A model of the tic-tac-toe program of src/src/main.rs: the Game value,  *)
(* the coordinate parser, update_board, handle_error, update_outcome and   *)
(* the driving loop of main / try_execute_turn.                            *)
(*                                                                         *)
(* Strings that the program builds with format! are modelled as sequences  *)
(* of string pieces, the pieces being the literal parts of the format      *)
(* string and the Display output of each argument.  A line of user input   *)
(* is a sequence of one-character strings.                                 *)
(***************************************************************************)
EXTENDS Integers, Sequences, FiniteSets, TLC

VARIABLES
    game,    \* the Game value owned by main; Dropped once main has returned
    main_pc, \* where main is: "loop" (its while loop), "final" (the call
             \* after the loop) or "exit"; "none" when main is not running
    pc,      \* where try_execute_turn is: "turn" (entered), "placed" (between
             \* update_board and update_outcome), "done" or "aborted"; where
             \* a constructor called on its own is: "call" or "returned"
    depth,   \* number of nested try_execute_turn calls below the one main made
    coords,  \* Option<Coordinates>: the local coords of the latest attempt
    result,  \* the Result of the latest fallible step of try_execute_turn, or
             \* of the constructor called on its own
    call     \* the constructor called on its own, with its arguments; None
             \* while main runs

vars == <<game, main_pc, pc, depth, coords, result, call>>

----------------------------------------------------------------------------
(* Bounds of the model. *)

\* The largest number of rejected attempts in a row (nested recursive calls
\* of try_execute_turn) the model follows.
MaxRetries == 1

----------------------------------------------------------------------------
(* Option and Result values. *)

None == [tag |-> "None"]
Some(v) == [tag |-> "Some", value |-> v]

Ok(v) == [tag |-> "Ok", value |-> v]
Err(m) == [tag |-> "Err", message |-> m]

unwrap(r) == r.value

----------------------------------------------------------------------------
(* Characters. *)

LOWERCASE == <<"a", "b", "c", "d", "e", "f", "g", "h", "i", "j", "k", "l", "m",
               "n", "o", "p", "q", "r", "s", "t", "u", "v", "w", "x", "y", "z">>
UPPERCASE == <<"A", "B", "C", "D", "E", "F", "G", "H", "I", "J", "K", "L", "M",
               "N", "O", "P", "Q", "R", "S", "T", "U", "V", "W", "X", "Y", "Z">>
DIGITS == <<"0", "1", "2", "3", "4", "5", "6", "7", "8", "9">>

Range(s) == {s[i] : i \in DOMAIN s}

\* [[:alpha:]]
Alpha == Range(LOWERCASE) \cup Range(UPPERCASE)
\* \d, over ASCII input
Digit == Range(DIGITS)
\* \s, over ASCII input
Whitespace == {" ", "\t", "\n", "\r"}
\* [[:punct:]], without the grave accent (no line of Inputs holds one)
Punct == {"!", "\"", "#", "$", "%", "&", "'", "(", ")", "*", "+", ",", "-", ".",
          "/", ":", ";", "<", "=", ">", "?", "@", "[", "\\", "]", "^", "_",
          "{", "|", "}", "~"}
\* the class [\s|[[:punct:]]] of the regular expression
Separator == Whitespace \cup {"|"} \cup Punct

to_ascii_uppercase(c) ==
    IF c \in Range(LOWERCASE)
    THEN UPPERCASE[CHOOSE i \in DOMAIN LOWERCASE : LOWERCASE[i] = c]
    ELSE c

DigitValue(c) == (CHOOSE i \in DOMAIN DIGITS : DIGITS[i] = c) - 1

\* usize::from_str on a non-empty run of ASCII digits.  The lines of Inputs
\* hold at most two digits, far below the 20 digits at which usize overflows.
RECURSIVE usize_from_str(_)
usize_from_str(digits) ==
    IF digits = <<>> THEN 0
    ELSE 10 * usize_from_str(SubSeq(digits, 1, Len(digits) - 1))
         + DigitValue(digits[Len(digits)])

\* The first position at or after i whose character is not in class, or
\* Len(s) + 1 when there is none.
RECURSIVE SkipWhile(_, _, _)
SkipWhile(s, i, class) ==
    IF i <= Len(s) /\ s[i] \in class THEN SkipWhile(s, i + 1, class) ELSE i

\* The last position at or before i whose character is not in class, or 0.
RECURSIVE SkipBackWhile(_, _, _)
SkipBackWhile(s, i, class) ==
    IF i >= 1 /\ s[i] \in class THEN SkipBackWhile(s, i - 1, class) ELSE i

\* str::trim
trim(s) == SubSeq(s, SkipWhile(s, 1, Whitespace), SkipBackWhile(s, Len(s), Whitespace))

----------------------------------------------------------------------------
(* Coordinates. *)

MIN_NUM_ROWS_OR_COLUMNS == 3
MAX_NUM_ROWS_OR_COLUMNS == 8

COLUMN_LETTERS == <<"A", "B", "C", "D", "E", "F", "G", "H">>

Indices(row, column) == [row |-> row, column |-> column]
Coordinates(column, row) == [column |-> column, row |-> row]

\* Display for the unsigned integers: the decimal digits, as one string for
\* a number below 10 and as ToString writes them otherwise.
UnsignedToString(n) == IF n < 10 THEN DIGITS[n + 1] ELSE ToString(n)

\* Display for Coordinates: "A1"
CoordinatesToString(c) == <<c.column, UnsignedToString(c.row)>>

\* Display for Player: "Player 1"
PlayerToString(p) == <<"Player ", UnsignedToString(p.number)>>

\* from_indices keeping the zero-indexed row.
from_indices_ZeroIndexedRow(indices) ==
    IF indices.column + 1 \in DOMAIN COLUMN_LETTERS
    THEN Ok(Coordinates(COLUMN_LETTERS[indices.column + 1], indices.row))
    ELSE Err(<<"No letter found to match zero-indexed column number ",
               UnsignedToString(indices.column), "; there are ",
               UnsignedToString(Len(COLUMN_LETTERS)), " letter(s) total.">>)

\* Coordinates::from_indices
from_indices(indices) ==
    IF indices.column + 1 \in DOMAIN COLUMN_LETTERS
    THEN Ok(Coordinates(COLUMN_LETTERS[indices.column + 1], indices.row + 1))
    ELSE Err(<<"No letter found to match zero-indexed column number ",
               UnsignedToString(indices.column), "; there are ",
               UnsignedToString(Len(COLUMN_LETTERS)), " letter(s) total.">>)

\* The regular expression
\*   ^[\s|[[:punct:]]]*([[:alpha:]])[\s|[[:punct:]]]*(\d+)[\s|[[:punct:]]]*$
\* The three classes are pairwise disjoint, so a line matches in at most one
\* way and the match is found by scanning from the left.
from_user_input(input) ==
    LET letterAt == SkipWhile(input, 1, Separator)
        digitsFrom == SkipWhile(input, letterAt + 1, Separator)
        digitsEnd == SkipWhile(input, digitsFrom, Digit)
        tailEnd == SkipWhile(input, digitsEnd, Separator)
        matches == /\ letterAt <= Len(input)
                   /\ input[letterAt] \in Alpha
                   /\ digitsEnd > digitsFrom
                   /\ tailEnd = Len(input) + 1
    IN  IF matches
        THEN Ok(Coordinates(to_ascii_uppercase(input[letterAt]),
                            usize_from_str(SubSeq(input, digitsFrom, digitsEnd - 1))))
        ELSE Err(<<"Could not parse '">> \o trim(input) \o <<"' as coords.">>)

----------------------------------------------------------------------------
(* Tiles, players, notifications, outcomes. *)

\* TileOccupationState
Empty == [tag |-> "Empty"]
Occupied(player) == [tag |-> "Occupied", player |-> player]

\* TileDisplayState is one of "Error", "NewlyCreated", "Normal", "Victory"
Tile(occupation_state, display_state) ==
    [occupation_state |-> occupation_state, display_state |-> display_state]

Player(number, mark) == [number |-> number, mark |-> mark]

\* NotificationType is one of "Success", "Info", "Error"
Notification(message, notification_type) ==
    [message |-> message, notification_type |-> notification_type]

\* GameOutcome
InProgress == [tag |-> "InProgress"]
Draw == [tag |-> "Draw"]
Victory(player) == [tag |-> "Victory", player |-> player]

----------------------------------------------------------------------------
(* impl Game.  A Game is a record; self.board.tiles, a HashMap, is a       *)
(* function whose domain is the key set of the map.                        *)

\* Game::new with its row loop starting at 1.
new_RowsFromOne(num_rows_or_columns) ==
    IF \/ num_rows_or_columns < MIN_NUM_ROWS_OR_COLUMNS
       \/ num_rows_or_columns > MAX_NUM_ROWS_OR_COLUMNS
    THEN Err(<<"Number of rows/columns on game board must be between ",
               UnsignedToString(MIN_NUM_ROWS_OR_COLUMNS), " and ",
               UnsignedToString(MAX_NUM_ROWS_OR_COLUMNS), ".">>)
    ELSE LET keys == {unwrap(from_indices(Indices(row_index, column_index))) :
                         row_index \in 1..(num_rows_or_columns - 1),
                         column_index \in 0..(num_rows_or_columns - 1)}
         IN  Ok([players |-> <<Player(1, "X"), Player(2, "O")>>,
                 board |-> [tiles |-> [c \in keys |-> Tile(Empty, "Normal")]],
                 notification |-> None,
                 grid_dimensions |-> num_rows_or_columns,
                 turn_number |-> 1,
                 outcome |-> InProgress])

\* Game::new refusing the largest dimension too.
new_ExclusiveMaximum(num_rows_or_columns) ==
    IF \/ num_rows_or_columns < MIN_NUM_ROWS_OR_COLUMNS
       \/ num_rows_or_columns >= MAX_NUM_ROWS_OR_COLUMNS
    THEN Err(<<"Number of rows/columns on game board must be between ",
               UnsignedToString(MIN_NUM_ROWS_OR_COLUMNS), " and ",
               UnsignedToString(MAX_NUM_ROWS_OR_COLUMNS), ".">>)
    ELSE LET keys == {unwrap(from_indices(Indices(row_index, column_index))) :
                         row_index \in 0..(num_rows_or_columns - 1),
                         column_index \in 0..(num_rows_or_columns - 1)}
         IN  Ok([players |-> <<Player(1, "X"), Player(2, "O")>>,
                 board |-> [tiles |-> [c \in keys |-> Tile(Empty, "Normal")]],
                 notification |-> None,
                 grid_dimensions |-> num_rows_or_columns,
                 turn_number |-> 1,
                 outcome |-> InProgress])

\* Game::new
new(num_rows_or_columns) ==
    IF \/ num_rows_or_columns < MIN_NUM_ROWS_OR_COLUMNS
       \/ num_rows_or_columns > MAX_NUM_ROWS_OR_COLUMNS
    THEN Err(<<"Number of rows/columns on game board must be between ",
               UnsignedToString(MIN_NUM_ROWS_OR_COLUMNS), " and ",
               UnsignedToString(MAX_NUM_ROWS_OR_COLUMNS), ".">>)
    ELSE LET keys == {unwrap(from_indices(Indices(row_index, column_index))) :
                         row_index \in 0..(num_rows_or_columns - 1),
                         column_index \in 0..(num_rows_or_columns - 1)}
         IN  Ok([players |-> <<Player(1, "X"), Player(2, "O")>>,
                 board |-> [tiles |-> [c \in keys |-> Tile(Empty, "Normal")]],
                 notification |-> None,
                 grid_dimensions |-> num_rows_or_columns,
                 turn_number |-> 1,
                 outcome |-> InProgress])

\* update_board without its test for an occupied tile.
update_board_Overwrite(self, coords_for_move, player_for_move) ==
    IF coords_for_move \notin DOMAIN self.board.tiles
    THEN Err(<<"Could not find coordinates ">> \o CoordinatesToString(coords_for_move)
             \o <<" on game board.">>)
    ELSE LET new_tiles ==
                 [c \in DOMAIN self.board.tiles |->
                     IF c = coords_for_move
                     THEN Tile(Occupied(player_for_move), "NewlyCreated")
                     ELSE Tile(self.board.tiles[c].occupation_state, "Normal")]
         IN  Ok([self EXCEPT !.board = [tiles |-> new_tiles]])

\* update_board changing the tile of the move alone, the other tiles
\* keeping their display state.
update_board_KeepDisplay(self, coords_for_move, player_for_move) ==
    IF coords_for_move \notin DOMAIN self.board.tiles
    THEN Err(<<"Could not find coordinates ">> \o CoordinatesToString(coords_for_move)
             \o <<" on game board.">>)
    ELSE LET tile_for_move == self.board.tiles[coords_for_move]
         IN  IF tile_for_move.occupation_state.tag = "Occupied"
             THEN Err(<<"Tile ">> \o CoordinatesToString(coords_for_move)
                      \o <<" is already occupied by ">>
                      \o PlayerToString(tile_for_move.occupation_state.player)
                      \o <<".">>)
             ELSE Ok([self EXCEPT !.board.tiles[coords_for_move] =
                         Tile(Occupied(player_for_move), "NewlyCreated")])

\* Game::update_board: Ok(the game with the new board) or Err(message)
update_board(self, coords_for_move, player_for_move) ==
    IF coords_for_move \notin DOMAIN self.board.tiles
    THEN Err(<<"Could not find coordinates ">> \o CoordinatesToString(coords_for_move)
             \o <<" on game board.">>)
    ELSE LET tile_for_move == self.board.tiles[coords_for_move]
         IN  IF tile_for_move.occupation_state.tag = "Occupied"
             THEN Err(<<"Tile ">> \o CoordinatesToString(coords_for_move)
                      \o <<" is already occupied by ">>
                      \o PlayerToString(tile_for_move.occupation_state.player)
                      \o <<".">>)
             ELSE LET new_tiles ==
                          [c \in DOMAIN self.board.tiles |->
                              IF c = coords_for_move
                              THEN Tile(Occupied(player_for_move), "NewlyCreated")
                              ELSE Tile(self.board.tiles[c].occupation_state, "Normal")]
                  IN  Ok([self EXCEPT !.board = [tiles |-> new_tiles]])

\* handle_error marking the tile through an inserting lookup, which adds a
\* tile for coordinates the board does not hold.
handle_error_Insert(g, error, maybe_coords) ==
    LET notified == [g EXCEPT !.notification = Some(Notification(error, "Error"))]
    IN  IF maybe_coords.tag = "Some"
        THEN [notified EXCEPT !.board.tiles =
                 [c \in DOMAIN @ \cup {maybe_coords.value} |->
                     IF c = maybe_coords.value
                     THEN Tile(IF c \in DOMAIN @ THEN @[c].occupation_state ELSE Empty,
                               "Error")
                     ELSE @[c]]]
        ELSE notified

\* handle_error
handle_error(g, error, maybe_coords) ==
    LET notified == [g EXCEPT !.notification = Some(Notification(error, "Error"))]
    IN  IF maybe_coords.tag = "Some" /\ maybe_coords.value \in DOMAIN g.board.tiles
        THEN [notified EXCEPT !.board.tiles[maybe_coords.value].display_state = "Error"]
        ELSE notified

\* The candidate lines without the columns.
possible_winning_indices_sets_NoColumns(grid_dimensions) ==
    LET max_index == grid_dimensions - 1
    IN  [i \in 1..grid_dimensions |->
            [j \in 1..grid_dimensions |-> Indices(i - 1, j - 1)]]
        \o <<[i \in 1..grid_dimensions |-> Indices(i - 1, i - 1)],
             [i \in 1..grid_dimensions |-> Indices(max_index - (i - 1), i - 1)]>>

\* The candidate lines with the lower-left diagonal entered twice and the
\* upper-left diagonal left out.
possible_winning_indices_sets_OneDiagonal(grid_dimensions) ==
    LET max_index == grid_dimensions - 1
    IN  [i \in 1..grid_dimensions |->
            [j \in 1..grid_dimensions |-> Indices(i - 1, j - 1)]]
        \o [i \in 1..grid_dimensions |->
               [j \in 1..grid_dimensions |-> Indices(j - 1, i - 1)]]
        \o <<[i \in 1..grid_dimensions |-> Indices(max_index - (i - 1), i - 1)],
             [i \in 1..grid_dimensions |-> Indices(max_index - (i - 1), i - 1)]>>

\* The candidate lines with the columns built before the rows.
possible_winning_indices_sets_ColumnsFirst(grid_dimensions) ==
    LET max_index == grid_dimensions - 1
    IN  [i \in 1..grid_dimensions |->
            [j \in 1..grid_dimensions |-> Indices(j - 1, i - 1)]]
        \o [i \in 1..grid_dimensions |->
               [j \in 1..grid_dimensions |-> Indices(i - 1, j - 1)]]
        \o <<[i \in 1..grid_dimensions |-> Indices(i - 1, i - 1)],
             [i \in 1..grid_dimensions |-> Indices(max_index - (i - 1), i - 1)]>>

\* The candidate lines update_outcome builds, in the order it builds them:
\* the rows, the columns, the upper-left and the lower-left diagonal.
possible_winning_indices_sets(grid_dimensions) ==
    LET max_index == grid_dimensions - 1
        row_indices(row_index) ==
            [i \in 1..grid_dimensions |-> Indices(row_index, i - 1)]
        column_indices(column_index) ==
            [i \in 1..grid_dimensions |-> Indices(i - 1, column_index)]
        upper_left_diagonal_indices ==
            [i \in 1..grid_dimensions |-> Indices(i - 1, i - 1)]
        lower_left_diagonal_indices ==
            [i \in 1..grid_dimensions |-> Indices(max_index - (i - 1), i - 1)]
    IN  [i \in 1..grid_dimensions |-> row_indices(i - 1)]
        \o [i \in 1..grid_dimensions |-> column_indices(i - 1)]
        \o <<upper_left_diagonal_indices, lower_left_diagonal_indices>>

\* The loop of single_player_occupying_indices from position i on, with
\* the running occupier found so far.
RECURSIVE occupier_from(_, _, _)
occupier_from(tiles, i, maybe_running_occupier) ==
    IF i > Len(tiles) THEN maybe_running_occupier
    ELSE IF tiles[i].occupation_state = Empty THEN None
    ELSE LET tile_occupier == tiles[i].occupation_state.player
         IN  IF maybe_running_occupier = None
             THEN occupier_from(tiles, i + 1, Some(tile_occupier))
             ELSE IF maybe_running_occupier.value # tile_occupier
                  THEN None
                  ELSE occupier_from(tiles, i + 1, maybe_running_occupier)

\* single_player_occupying_indices without its test that a tile's occupier
\* is the running occupier: the occupier of the first tile, when no tile is
\* empty.
single_player_occupying_indices_FirstOccupier(self, indices) ==
    LET tiles == [i \in DOMAIN indices |->
                     self.board.tiles[unwrap(from_indices(indices[i]))]]
    IN  IF \E i \in DOMAIN tiles : tiles[i].occupation_state = Empty
        THEN None
        ELSE Some(tiles[1].occupation_state.player)

\* Game::single_player_occupying_indices
single_player_occupying_indices(self, indices) ==
    LET tiles == [i \in DOMAIN indices |->
                     self.board.tiles[unwrap(from_indices(indices[i]))]]
    IN  occupier_from(tiles, 1, None)

\* advance_turn skipping a turn.
advance_turn_ByTwo(self) == [self EXCEPT !.turn_number = @ + 2]

\* Game::advance_turn
advance_turn(self) == [self EXCEPT !.turn_number = @ + 1]

\* get_current_turn_player without the - 1 that makes the turn number an
\* index.
get_current_turn_player_OffByOne(self) ==
    LET turn_index == self.turn_number % 2
    IN  self.players[turn_index + 1]

\* Game::get_current_turn_player
get_current_turn_player(self) ==
    LET turn_index == (self.turn_number - 1) % 2
    IN  self.players[turn_index + 1]

\* The draw test with any in place of all.
all_tiles_occupied_Any(self) ==
    \E c \in DOMAIN self.board.tiles :
        self.board.tiles[c].occupation_state.tag = "Occupied"

\* The draw test of update_outcome.
all_tiles_occupied(self) ==
    \A c \in DOMAIN self.board.tiles :
        self.board.tiles[c].occupation_state.tag = "Occupied"

\* Game::update_outcome
update_outcome(self) ==
    LET sets == possible_winning_indices_sets(self.grid_dimensions)
        winning == {i \in DOMAIN sets :
                       single_player_occupying_indices(self, sets[i]) # None}
    IN  IF winning # {}
        THEN LET indices_set == sets[CHOOSE i \in winning : \A j \in winning : i <= j]
                 player == single_player_occupying_indices(self, indices_set).value
                 coordinates_set == {unwrap(from_indices(indices_set[i])) :
                                        i \in DOMAIN indices_set}
             IN  [self EXCEPT
                     !.outcome = Victory(player),
                     !.notification =
                         Some(Notification(PlayerToString(player) \o <<" wins!">>,
                                           "Success")),
                     !.board.tiles =
                         [c \in DOMAIN @ |->
                             IF c \in coordinates_set
                             THEN [@[c] EXCEPT !.display_state = "Victory"]
                             ELSE @[c]]]
        ELSE IF all_tiles_occupied(self)
        THEN [self EXCEPT
                 !.outcome = Draw,
                 !.notification =
                     Some(Notification(<<"The game ends in a draw!">>, "Info"))]
        ELSE advance_turn(self)

----------------------------------------------------------------------------
(* The lines the user may enter.  read_line keeps the line feed; the empty *)
(* line is what read_line leaves at end of input.                          *)

\* One line for every tile of the 3 x 3 board: A1 and B2 typed in lower case
\* amid blanks and punctuation, the others as the letter and the digit.
CellLines ==
    ({<<column, row, "\n">> : column \in {"A", "B", "C"}, row \in {"1", "2", "3"}}
        \ {<<"A", "1", "\n">>, <<"B", "2", "\n">>})
    \cup {<<" ", "a", " ", "1", " ", "\n">>, <<"(", "b", ",", "2", ")", "\n">>}
OutOfBoundsLines == {<<"D", "1", "\n">>, <<"A", "0", "\n">>, <<"c", "1", "0", "\n">>}
UnparsableLines == {<<"1", "2", "\n">>, <<"A", "B", "\n">>}

Inputs == CellLines \cup OutOfBoundsLines \cup UnparsableLines

\* What Coordinates::from_user_input makes of each line.
Parsed == [input \in Inputs |-> from_user_input(input)]

----------------------------------------------------------------------------
(* main and try_execute_turn. *)

\* The dimension main passes to Game::new.
MainDimension == 3

\* What is left of main's locals once main has returned.
Dropped == [tag |-> "Dropped"]

\* try_execute_turn prompting whatever the outcome.
in_progress_Always(g) == TRUE

\* The test of try_execute_turn that decides whether it prompts for a move.
in_progress(g) == g.outcome = InProgress

Init ==
    LET made == new(MainDimension)
    IN  /\ game = IF made.tag = "Ok" THEN made.value ELSE Dropped
        /\ main_pc = IF made.tag = "Ok" THEN "loop" ELSE "exit"
        /\ pc = IF made.tag = "Ok" THEN "turn" ELSE "aborted"
        /\ depth = 0
        /\ coords = None
        /\ result = IF made.tag = "Ok" THEN Ok(<<>>) ELSE made
        /\ call = None

\* try_execute_turn prints the board and the notification, clears the
\* notification and reads a line that does not parse: the error leaves
\* try_execute_turn and main through the ? operators.
TurnUnparsed(input) ==
    /\ pc = "turn"
    /\ in_progress(game)
    /\ LET parsed == Parsed[input]
       IN  /\ parsed.tag = "Err"
           /\ result' = parsed
    /\ game' = Dropped
    /\ main_pc' = "exit"
    /\ pc' = "aborted"
    /\ depth' = 0
    /\ coords' = None
    /\ UNCHANGED call

\* try_execute_turn reads a line that parses and update_board refuses the
\* move: handle_error, then the recursive call.
TurnRejected(input) ==
    /\ pc = "turn"
    /\ in_progress(game)
    /\ depth < MaxRetries
    /\ LET current_player == get_current_turn_player(game)
           shown == [game EXCEPT !.notification = None]
           parsed == Parsed[input]
       IN  /\ parsed.tag = "Ok"
           /\ \E updated \in {update_board(shown, parsed.value, current_player)} :
                  /\ updated.tag = "Err"
                  /\ game' = handle_error(shown, updated.message, Some(parsed.value))
                  /\ result' = updated
           /\ coords' = Some(parsed.value)
    /\ depth' = depth + 1
    /\ UNCHANGED <<main_pc, pc, call>>

\* try_execute_turn reads a line that parses and update_board accepts the
\* move.
TurnPlaced(input) ==
    /\ pc = "turn"
    /\ in_progress(game)
    /\ LET current_player == get_current_turn_player(game)
           shown == [game EXCEPT !.notification = None]
           parsed == Parsed[input]
       IN  /\ parsed.tag = "Ok"
           /\ \E updated \in {update_board(shown, parsed.value, current_player)} :
                  /\ updated.tag = "Ok"
                  /\ game' = updated.value
                  /\ result' = Ok(<<>>)
           /\ coords' = Some(parsed.value)
    /\ pc' = "placed"
    /\ UNCHANGED <<main_pc, depth, call>>

\* update_outcome, then every nested try_execute_turn returns Ok and main
\* tests its loop condition (or, after the final call, returns).
UpdateOutcome ==
    /\ pc = "placed"
    /\ depth' = 0
    /\ IF main_pc = "loop"
       THEN /\ game' = update_outcome(game)
            /\ main_pc' = IF game'.outcome = InProgress THEN "loop" ELSE "final"
            /\ pc' = "turn"
            /\ UNCHANGED <<coords, result>>
       ELSE /\ game' = Dropped
            /\ main_pc' = "exit"
            /\ pc' = "done"
            /\ coords' = None
            /\ result' = Ok(<<>>)
    /\ UNCHANGED call

\* try_execute_turn on a game that is over: it prints the board and the
\* notification, clears the notification and returns.
RenderOnly ==
    /\ pc = "turn"
    /\ ~in_progress(game)
    /\ depth' = 0
    /\ IF main_pc = "loop"
       THEN /\ game' = [game EXCEPT !.notification = None]
            /\ main_pc' = "final"
            /\ pc' = "turn"
            /\ UNCHANGED <<coords, result>>
       ELSE /\ game' = Dropped
            /\ main_pc' = "exit"
            /\ pc' = "done"
            /\ coords' = None
            /\ result' = Ok(<<>>)
    /\ UNCHANGED call

Next ==
    \/ \E input \in Inputs : TurnUnparsed(input)
    \/ \E input \in Inputs : TurnRejected(input)
    \/ \E input \in Inputs : TurnPlaced(input)
    \/ UpdateOutcome
    \/ RenderOnly

Spec == Init /\ [][Next]_vars

\* The program, a sequential one, goes on whenever its next step needs no
\* input: update_outcome follows an accepted move, and the call of
\* try_execute_turn on a game that is over renders and returns.  And the
\* user, as long as the program asks for a move, eventually enters one that
\* update_board accepts.
SpecFair ==
    /\ Spec
    /\ WF_vars(UpdateOutcome)
    /\ WF_vars(RenderOnly)
    /\ WF_vars(\E input \in Inputs : TurnPlaced(input))

----------------------------------------------------------------------------
(* Game::new and Coordinates::from_indices called on their own, with       *)
(* arguments that main does not pass.                                      *)

\* The largest dimension handed to Game::new.
MaxDimension == 9

\* The largest row or column index handed to Coordinates::from_indices.
MaxIndex == 9

NewCall(num_rows_or_columns) ==
    [function |-> "Game::new", num_rows_or_columns |-> num_rows_or_columns]
FromIndicesCall(indices) ==
    [function |-> "Coordinates::from_indices", indices |-> indices]

\* A call is about to be made; main is not running.
InitCalls ==
    /\ call \in {NewCall(n) : n \in 0..MaxDimension}
                 \cup {FromIndicesCall(Indices(row, column)) :
                          row \in 0..MaxIndex, column \in 0..MaxIndex}
    /\ game = Dropped
    /\ main_pc = "none"
    /\ pc = "call"
    /\ depth = 0
    /\ coords = None
    /\ result = Ok(<<>>)

\* Game::new returns its Result<Game>.
CallNew ==
    /\ pc = "call"
    /\ call.function = "Game::new"
    /\ result' = new(call.num_rows_or_columns)
    /\ pc' = "returned"
    /\ UNCHANGED <<game, main_pc, depth, coords, call>>

\* Coordinates::from_indices returns its Result<Coordinates>.
CallFromIndices ==
    /\ pc = "call"
    /\ call.function = "Coordinates::from_indices"
    /\ result' = from_indices(call.indices)
    /\ pc' = "returned"
    /\ UNCHANGED <<game, main_pc, depth, coords, call>>

NextCalls ==
    \/ CallNew
    \/ CallFromIndices

SpecCalls == InitCalls /\ [][NextCalls]_vars

----------------------------------------------------------------------------
(* Vocabulary of the properties. *)

\* main has not returned: the Game value exists.
Live == main_pc # "exit"

PlayerX == Player(1, "X")
PlayerO == Player(2, "O")

\* The occupation of every tile of g.
Occupation(g) == [c \in DOMAIN g.board.tiles |-> g.board.tiles[c].occupation_state]

OccupiedTiles(g) == {c \in DOMAIN g.board.tiles : g.board.tiles[c].occupation_state # Empty}

BoardFull(g) == OccupiedTiles(g) = DOMAIN g.board.tiles

\* The tiles of g that carry the given display state.
Displayed(g, display_state) ==
    {c \in DOMAIN g.board.tiles : g.board.tiles[c].display_state = display_state}

\* The 2N+2 candidate lines of a board of dimension n, as sets of coordinates.
RowLine(n, row) == {Coordinates(COLUMN_LETTERS[i], row) : i \in 1..n}
ColumnLine(n, i) == {Coordinates(COLUMN_LETTERS[i], row) : row \in 1..n}
MainDiagonal(n) == {Coordinates(COLUMN_LETTERS[i], i) : i \in 1..n}
AntiDiagonal(n) == {Coordinates(COLUMN_LETTERS[i], n + 1 - i) : i \in 1..n}
CandidateLines(n) ==
    {RowLine(n, row) : row \in 1..n} \cup {ColumnLine(n, i) : i \in 1..n}
    \cup {MainDiagonal(n), AntiDiagonal(n)}

\* line is wholly occupied by player in g.
Owns(g, player, line) ==
    \A c \in line : g.board.tiles[c].occupation_state = Occupied(player)

OwnedLines(g, player) == {line \in CandidateLines(g.grid_dimensions) : Owns(g, player, line)}

NoOwnedLine(g) == \A player \in {PlayerX, PlayerO} : OwnedLines(g, player) = {}

\* The steps of the program.
AttemptStep == Live /\ pc = "turn" /\ game.outcome = InProgress
AcceptedStep == Live /\ pc = "turn" /\ pc' = "placed"
RejectedStep == Live /\ pc = "turn" /\ pc' = "turn" /\ depth' = depth + 1
OutcomeStep == Live /\ pc = "placed" /\ Live'

\* A scripted game: move i places mark script[i].mark at script[i].at.
Move(mark, column, row) == [mark |-> mark, at |-> Coordinates(column, row)]
MarkPlayer(mark) == IF mark = "X" THEN PlayerX ELSE PlayerO

\* The occupation of the board of dimension n after the first i moves of
\* script, for every i from 0 to the length of script.
ScriptBoards(n, script) ==
    [i \in 0..Len(script) |->
        [c \in {Coordinates(COLUMN_LETTERS[k], row) : k \in 1..n, row \in 1..n} |->
            IF \E j \in 1..i : script[j].at = c
            THEN Occupied(MarkPlayer(script[CHOOSE j \in 1..i : script[j].at = c].mark))
            ELSE Empty]]

\* The program follows script (boards being its ScriptBoards) move by move:
\* wherever the board holds the first i moves at a turn boundary the game is
\* in progress, and an attempt at the next coordinate is accepted and places
\* the next mark; and update_outcome changes no occupation.
FollowsScript(script, boards) ==
    /\ (Live /\ pc = "turn") =>
          LET occupation == Occupation(game)
              \* boards[i] holds i marks: no other board can be the occupation
              marks == {Cardinality(OccupiedTiles(game))}
          IN  \A i \in marks \cap 0..(Len(script) - 1) :
                  occupation = boards[i]
                  => /\ game.outcome = InProgress
                     /\ (Live' /\ coords' = Some(script[i + 1].at))
                        => /\ pc' = "placed"
                           /\ result'.tag = "Ok"
                           /\ Occupation(game') = boards[i + 1]
    /\ OutcomeStep => Occupation(game') = Occupation(game)

\* The board holds exactly the moves of script at a turn boundary.
ScriptPlayed(script, boards) ==
    /\ Live
    /\ pc = "turn"
    /\ Occupation(game) = boards[Len(script)]

----------------------------------------------------------------------------
(* C1 *)

C1Script == <<Move("X", "A", 1), Move("O", "B", 1), Move("X", "A", 2),
              Move("O", "B", 2), Move("X", "A", 3)>>
C1Boards == ScriptBoards(3, C1Script)

\* C1: when update_outcome runs after an accepted move on a board in which
\* some candidate line is wholly occupied by one player P, the outcome
\* becomes Victory(P) and the tiles displayed as Victory form one candidate
\* line wholly occupied by P; and the game X:A1, O:B1, X:A2, O:B2, X:A3 is
\* accepted move by move and ends with Victory(Player 1) and exactly A1, A2,
\* A3 displayed as Victory.
C1_VictoryOnCompleteLine ==
    [][/\ OutcomeStep =>
            \A player \in {PlayerX, PlayerO} :
                OwnedLines(game, player) # {}
                => /\ game'.outcome = Victory(player)
                   /\ Displayed(game', "Victory") \in OwnedLines(game', player)
       /\ FollowsScript(C1Script, C1Boards)
       /\ ScriptPlayed(C1Script, C1Boards)
            => /\ game.outcome = Victory(PlayerX)
               /\ Displayed(game, "Victory") = ColumnLine(3, 1)
      ]_vars

\* The scripted game of C1 has been played, its last move being X at A3.
C1_Witness ==
    /\ ScriptPlayed(C1Script, C1Boards)
    /\ coords = Some(Coordinates("A", 3))
    /\ main_pc = "final"
    /\ game.outcome = Victory(PlayerX)

----------------------------------------------------------------------------
(* C2 *)

C2Script == <<Move("X", "A", 1), Move("O", "B", 1), Move("X", "C", 1),
              Move("O", "A", 2), Move("X", "B", 2), Move("O", "C", 2),
              Move("X", "B", 3), Move("O", "A", 3), Move("X", "C", 3)>>
C2Boards == ScriptBoards(3, C2Script)

\* C2 as stated: the game X:A1, O:B1, X:C1, O:A2, X:B2, O:C2, X:B3, O:A3,
\* X:C3 is accepted move by move and ends in a Draw with no candidate line
\* wholly occupied by one player.
C2_AsStated ==
    [][/\ FollowsScript(C2Script, C2Boards)
       /\ ScriptPlayed(C2Script, C2Boards)
            => /\ game.outcome = Draw
               /\ NoOwnedLine(game)
      ]_vars

\* C2 amended: the game X:A1, O:B1, X:C1, O:A2, X:B2, O:C2, X:B3, O:A3, X:C3
\* is accepted move by move and ends with Victory(Player 1); in the final
\* board the diagonal A1, B2, C3 is wholly occupied by Player 1 and is the
\* only candidate line wholly occupied by one player.
C2_ScriptEndsInVictory ==
    [][/\ FollowsScript(C2Script, C2Boards)
       /\ ScriptPlayed(C2Script, C2Boards)
            => /\ game.outcome = Victory(PlayerX)
               /\ OwnedLines(game, PlayerX) = {MainDiagonal(3)}
               /\ OwnedLines(game, PlayerO) = {}
               /\ BoardFull(game)
      ]_vars

\* The scripted game of C2 has been played, its last move being X at C3.
C2_Witness ==
    /\ ScriptPlayed(C2Script, C2Boards)
    /\ coords = Some(Coordinates("C", 3))
    /\ main_pc = "final"

----------------------------------------------------------------------------
(* C3 *)

\* C3: when update_outcome runs after an accepted move on a full board in
\* which no candidate line is wholly occupied by one player, the outcome
\* becomes Draw and the turn number stays; and whenever the outcome is Draw
\* the board is full and no candidate line is wholly occupied by one player.
C3_DrawOnFullBoardWithoutLine ==
    [][/\ (OutcomeStep /\ BoardFull(game) /\ NoOwnedLine(game))
            => /\ game'.outcome = Draw
               /\ game'.turn_number = game.turn_number
       /\ (Live' /\ game'.outcome = Draw)
            => /\ BoardFull(game')
               /\ NoOwnedLine(game')
      ]_vars

\* update_outcome has just declared a draw.
C3_Witness ==
    /\ Live
    /\ game.outcome = Draw
    /\ pc = "turn"
    /\ game.notification # None

----------------------------------------------------------------------------
(* C4 *)

\* C4: an attempt whose coordinate names an occupied tile fails with the
\* error that names the coordinate and the player occupying the tile, and
\* leaves the key set, every occupation, the outcome and the turn number as
\* they were; no display state but that of the named tile changes.
C4_OccupiedTileRejected ==
    [][(/\ AttemptStep
        /\ Live'
        /\ coords'.value \in DOMAIN game.board.tiles
        /\ game.board.tiles[coords'.value].occupation_state # Empty)
       => LET c == coords'.value
              occupant == game.board.tiles[c].occupation_state.player
          IN  /\ pc' = "turn"
              /\ result'.tag = "Err"
              /\ Len(result'.message) = 7
              /\ SubSeq(result'.message, 2, 3) = <<c.column, ToString(c.row)>>
              /\ SubSeq(result'.message, 5, 6) = <<"Player ", ToString(occupant.number)>>
              /\ Occupation(game') = Occupation(game)
              /\ game'.outcome = game.outcome
              /\ game'.turn_number = game.turn_number
              /\ \A d \in DOMAIN game.board.tiles \ {c} :
                     game'.board.tiles[d] = game.board.tiles[d]
      ]_vars

\* An attempt at a tile the other player occupies has just been refused.
C4_Witness ==
    /\ Live
    /\ pc = "turn"
    /\ result.tag = "Err"
    /\ coords.tag = "Some"
    /\ coords.value \in OccupiedTiles(game)
    /\ game.board.tiles[coords.value].occupation_state.player
           # get_current_turn_player(game)

----------------------------------------------------------------------------
(* C5 *)

\* C5: an attempt whose coordinate is no key of the board fails with the
\* out-of-bounds error and changes nothing of the game but the notification,
\* which becomes that error.
C5_OutOfBoundsRejected ==
    [][(/\ AttemptStep
        /\ Live'
        /\ coords'.value \notin DOMAIN game.board.tiles)
       => LET c == coords'.value
              message == <<"Could not find coordinates ", c.column, ToString(c.row),
                           " on game board.">>
          IN  /\ pc' = "turn"
              /\ result' = Err(message)
              /\ game' = [game EXCEPT
                             !.notification = Some(Notification(message, "Error"))]
      ]_vars

\* An attempt at row 0 has just been refused on a board that holds marks.
C5_Witness ==
    /\ Live
    /\ pc = "turn"
    /\ result.tag = "Err"
    /\ coords = Some(Coordinates("A", 0))
    /\ OccupiedTiles(game) # {}

----------------------------------------------------------------------------
(* C6 *)

\* C6: once the outcome is Draw or Victory, no step accepts a move, and as
\* long as the game exists its outcome, every occupation and the turn number
\* stay as they are.
C6_TerminalOutcome ==
    [][(Live /\ game.outcome # InProgress)
       => /\ pc' # "placed"
          /\ Live' => /\ game'.outcome = game.outcome
                      /\ Occupation(game') = Occupation(game)
                      /\ game'.turn_number = game.turn_number
      ]_vars

\* The game is won with tiles still empty and main is past its loop: the
\* final call of try_execute_turn is about to run.
C6_Witness ==
    /\ Live
    /\ main_pc = "final"
    /\ pc = "turn"
    /\ game.outcome # InProgress
    /\ ~BoardFull(game)

----------------------------------------------------------------------------
(* C7 *)

\* C7 as stated: whenever the game is in progress and the line entered does
\* not parse, or names an out-of-bounds or occupied tile, the program stays
\* in the game loop with the occupations, the turn number and the outcome
\* unchanged, an error notification is set, and the same player is prompted
\* again.
C7_AsStated ==
    [][(AttemptStep /\ result'.tag = "Err")
       => /\ Live'
          /\ main_pc' = "loop"
          /\ pc' = "turn"
          /\ Occupation(game') = Occupation(game)
          /\ game'.turn_number = game.turn_number
          /\ game'.outcome = game.outcome
          /\ game'.notification.tag = "Some"
          /\ game'.notification.value.notification_type = "Error"
          /\ get_current_turn_player(game') = get_current_turn_player(game)
      ]_vars

----------------------------------------------------------------------------
(* C8 *)

\* C8: the turn number is 1 while the board is empty; a step changes it only
\* by adding 1, and only when update_outcome runs after an accepted move and
\* leaves the outcome InProgress, and every such step adds 1.
C8_TurnCounter ==
    [][/\ (Live /\ OccupiedTiles(game) = {}) => game.turn_number = 1
       /\ (Live /\ Live')
            => /\ game'.turn_number # game.turn_number
                    => /\ game'.turn_number = game.turn_number + 1
                       /\ pc = "placed"
                       /\ game'.outcome = InProgress
               /\ (pc = "placed" /\ game'.outcome = InProgress)
                    => game'.turn_number = game.turn_number + 1
      ]_vars

\* The fifth move has won the game and the turn number is still 5.
C8_Witness ==
    /\ Live
    /\ main_pc = "final"
    /\ game.outcome.tag = "Victory"
    /\ game.turn_number = 5
    /\ Cardinality(OccupiedTiles(game)) = 5

----------------------------------------------------------------------------
(* C9 *)

\* The player whose mark the k-th accepted move of a game places.
Mover(k) == IF k % 2 = 1 THEN PlayerX ELSE PlayerO

\* C9: get_current_turn_player is Player 1 on odd and Player 2 on even turn
\* numbers; the accepted move that brings the number of occupied tiles to k
\* places the mark of Player 1 when k is odd and of Player 2 when k is even;
\* and a rejected attempt leaves the current player as it was.
C9_PlayersAlternate ==
    [][/\ Live => get_current_turn_player(game) = Mover(game.turn_number)
       /\ AcceptedStep
            => LET k == Cardinality(OccupiedTiles(game'))
               IN  /\ Cardinality(OccupiedTiles(game)) = k - 1
                   /\ game'.board.tiles[coords'.value].occupation_state
                          = Occupied(Mover(k))
       /\ RejectedStep
            => get_current_turn_player(game') = get_current_turn_player(game)
      ]_vars

\* Player 2 has just placed the fourth mark of the game, after a rejected
\* attempt.
C9_Witness ==
    /\ Live
    /\ pc = "placed"
    /\ depth = 1
    /\ Cardinality(OccupiedTiles(game)) = 4
    /\ game.board.tiles[coords.value].occupation_state = Occupied(PlayerO)

----------------------------------------------------------------------------
(* C10 *)

\* C10: an accepted move makes the tile it names, which was Empty, Occupied
\* by the mover and NewlyCreated, and gives every other tile its former
\* occupation and the display state Normal; the key set stays.
C10_AcceptedMoveFrame ==
    [][AcceptedStep
       => LET c == coords'.value
          IN  /\ DOMAIN game'.board.tiles = DOMAIN game.board.tiles
              /\ c \in DOMAIN game.board.tiles
              /\ game.board.tiles[c].occupation_state = Empty
              /\ game'.board.tiles[c]
                     = Tile(Occupied(Mover(game.turn_number)), "NewlyCreated")
              /\ \A d \in DOMAIN game.board.tiles \ {c} :
                     game'.board.tiles[d]
                         = Tile(game.board.tiles[d].occupation_state, "Normal")
      ]_vars

\* A move has just been accepted after a rejected attempt at an occupied
\* tile, whose Error display state the move has reset.
C10_Witness ==
    /\ Live
    /\ pc = "placed"
    /\ depth = 1
    /\ Displayed(game, "NewlyCreated") = {coords.value}
    /\ Displayed(game, "Normal") = DOMAIN game.board.tiles \ {coords.value}
    /\ Cardinality(OccupiedTiles(game)) >= 2

----------------------------------------------------------------------------
(* C11 *)

\* The coordinates of a board of dimension n: every letter among the first n
\* with every row from 1 to n.
BoardCoordinates(n) ==
    {Coordinates(COLUMN_LETTERS[i], j) : i \in 1..n, j \in 1..n}

\* C11: in every state of a game of dimension N the keys of the board are
\* exactly the N * N coordinates of that dimension, whatever moves have been
\* accepted or rejected.
C11_KeySetFixed ==
    Live => /\ game.grid_dimensions = MainDimension
            /\ DOMAIN game.board.tiles = BoardCoordinates(game.grid_dimensions)
            /\ Cardinality(DOMAIN game.board.tiles)
                   = game.grid_dimensions * game.grid_dimensions

\* An attempt at coordinates outside the board has just been rejected, with
\* marks on the board, and the keys are the nine coordinates.
C11_Witness ==
    /\ Live
    /\ depth = 1
    /\ result.tag = "Err"
    /\ coords.value \notin BoardCoordinates(game.grid_dimensions)
    /\ Cardinality(OccupiedTiles(game)) >= 2
    /\ DOMAIN game.board.tiles = BoardCoordinates(3)

----------------------------------------------------------------------------
(* C12 *)

\* The constructor named function, called on its own, has returned.
Returned(function) ==
    /\ call # None
    /\ call.function = function
    /\ pc = "returned"

\* C12: for every dimension N from 3 to 8, Game::new(N) returns a game of
\* exactly N * N tiles, the N * N coordinates of that dimension, every tile
\* Empty and Normal, with outcome InProgress, turn number 1, no notification
\* and the players Player 1 with mark X and Player 2 with mark O.
C12_FreshGame ==
    (Returned("Game::new") /\ call.num_rows_or_columns \in 3..8)
    => /\ result.tag = "Ok"
       /\ LET N == call.num_rows_or_columns
              made == result.value
          IN  /\ Cardinality(DOMAIN made.board.tiles) = N * N
              /\ DOMAIN made.board.tiles = BoardCoordinates(N)
              /\ \A c \in DOMAIN made.board.tiles :
                     made.board.tiles[c] = Tile(Empty, "Normal")
              /\ made.outcome = InProgress
              /\ made.turn_number = 1
              /\ made.notification = None
              /\ made.players = <<Player(1, "X"), Player(2, "O")>>
              /\ made.grid_dimensions = N

\* Game::new(8) has returned a game of 64 tiles.
C12_Witness ==
    /\ Returned("Game::new")
    /\ call.num_rows_or_columns = 8
    /\ result.tag = "Ok"
    /\ Cardinality(DOMAIN result.value.board.tiles) = 64

----------------------------------------------------------------------------
(* C13 *)

\* C13: Game::new(N) returns an error, and no game, exactly when N < 3 or
\* N > 8; and from_indices succeeds on every pair of indices below a
\* dimension from 3 to 8, the pairs Game::new unwraps it on.
C13_NewErrsOutsideRange ==
    /\ Returned("Game::new")
       => LET N == call.num_rows_or_columns
          IN  /\ result.tag = "Err" <=> (N < 3 \/ N > 8)
              /\ result.tag = "Ok" <=> (3 <= N /\ N <= 8)
              /\ result.tag = "Err"
                 => result = Err(<<"Number of rows/columns on game board must be between ",
                                   "3", " and ", "8", ".">>)
    /\ (/\ Returned("Coordinates::from_indices")
        /\ \E N \in 3..8 : call.indices.row < N /\ call.indices.column < N)
       => result.tag = "Ok"

\* Game::new(9) has returned an error.
C13_Witness ==
    /\ Returned("Game::new")
    /\ call.num_rows_or_columns = 9
    /\ result.tag = "Err"

----------------------------------------------------------------------------
(* C14 *)

\* The indices that coordinates map back to: the zero-indexed row and the
\* zero-indexed place of the letter among the column letters.  The program
\* has no function for this direction.
IndicesOf(c) ==
    Indices(c.row - 1,
            (CHOOSE i \in DOMAIN COLUMN_LETTERS : COLUMN_LETTERS[i] = c.column) - 1)

\* C14: from_indices(row, column) fails exactly when column >= 8; when it
\* succeeds the Coordinates are the letter at place column of A..H with
\* row + 1, they map back to (row, column), and no other pair of indices
\* gives them; and every coordinate of the largest board is what
\* from_indices makes of the indices it maps back to.
C14_IndicesRoundTrip ==
    /\ Returned("Coordinates::from_indices")
       => LET row == call.indices.row
              column == call.indices.column
          IN  /\ result.tag = "Err" <=> column >= 8
              /\ column < 8
                 => /\ result = Ok(Coordinates(COLUMN_LETTERS[column + 1], row + 1))
                    /\ IndicesOf(result.value) = call.indices
                    /\ \A other_row \in 0..MaxIndex, other_column \in 0..MaxIndex :
                           from_indices(Indices(other_row, other_column)) = result
                           => Indices(other_row, other_column) = call.indices
    /\ \A c \in BoardCoordinates(8) : from_indices(IndicesOf(c)) = Ok(c)

\* from_indices(7, 7) has returned H8.
C14_Witness ==
    /\ Returned("Coordinates::from_indices")
    /\ call.indices = Indices(7, 7)
    /\ result = Ok(Coordinates("H", 8))

----------------------------------------------------------------------------
(* C15 *)

\* The candidate lines of a board of dimension n in the order of the claim:
\* the rows from row 1 up, the columns from column A on, the diagonal from
\* A1 and the diagonal from the last row of column A.
LineOrder(n) ==
    [i \in 1..n |-> RowLine(n, i)] \o [i \in 1..n |-> ColumnLine(n, i)]
    \o <<MainDiagonal(n), AntiDiagonal(n)>>

\* The places in LineOrder of the lines that one player wholly occupies in g.
CompleteLines(g) ==
    {i \in DOMAIN LineOrder(g.grid_dimensions) :
        \E player \in {PlayerX, PlayerO} :
            Owns(g, player, LineOrder(g.grid_dimensions)[i])}

\* C15: once a move has won the game, the tiles with display state Victory
\* are exactly the tiles of the complete line that comes first in the order
\* rows, columns, main diagonal, anti-diagonal; a tile that lies only on a
\* later complete line is not Victory.
C15_EarliestLineAnnotated ==
    (Live /\ game.outcome.tag = "Victory")
    => LET order == LineOrder(game.grid_dimensions)
           complete == CompleteLines(game)
       IN  /\ complete # {}
           /\ \A first \in complete :
                  (\A i \in complete : first <= i)
                  => /\ Displayed(game, "Victory") = order[first]
                     /\ \A i \in complete \ {first} :
                            \A c \in order[i] \ order[first] :
                                game.board.tiles[c].display_state # "Victory"

\* The winning move has completed two lines at once, and a tile of the later
\* one is not annotated.
C15_Witness ==
    /\ Live
    /\ game.outcome.tag = "Victory"
    /\ Cardinality(CompleteLines(game)) = 2
    /\ \E i \in CompleteLines(game) :
           LineOrder(game.grid_dimensions)[i] \ Displayed(game, "Victory") # {}

----------------------------------------------------------------------------
(* C16 *)

----------------------------------------------------------------------------
(* C17 *)

\* try_execute_turn has been entered, by main or by itself after a rejected
\* attempt: update_outcome has run for the last accepted move, or no move
\* has been made yet.
TurnBoundary == Live /\ pc = "turn"

\* C17: at a turn boundary the outcome is InProgress only if a tile is empty
\* and none of the 2N + 2 candidate lines is wholly occupied by one player.
C17_InProgressHasNoLine ==
    (TurnBoundary /\ game.outcome = InProgress)
    => /\ ~BoardFull(game)
       /\ NoOwnedLine(game)
       /\ Cardinality(CandidateLines(game.grid_dimensions))
              = 2 * game.grid_dimensions + 2

\* A move is awaited on a board with one empty tile.
C17_Witness ==
    /\ TurnBoundary
    /\ game.outcome = InProgress
    /\ Cardinality(OccupiedTiles(game)) = 8
    /\ NoOwnedLine(game)

----------------------------------------------------------------------------
(* C18 *)

\* C18: at a turn boundary the turn number is the number of occupied tiles
\* plus 1 while the outcome is InProgress, and the number of occupied tiles
\* once the outcome is Draw or a Victory.
C18_TurnNumberTracksBoard ==
    TurnBoundary
    => /\ game.outcome = InProgress
          => game.turn_number = Cardinality(OccupiedTiles(game)) + 1
       /\ game.outcome # InProgress
          => /\ game.outcome = Draw \/ game.outcome.tag = "Victory"
             /\ game.turn_number = Cardinality(OccupiedTiles(game))

\* The game has ended in a draw at turn number 9 with nine occupied tiles.
C18_Witness ==
    /\ TurnBoundary
    /\ game.outcome = Draw
    /\ game.turn_number = 9
    /\ Cardinality(OccupiedTiles(game)) = 9

----------------------------------------------------------------------------
(* C19 *)

\* C19: when the outcome is Victory(P), P has made the last accepted move,
\* the tile of that move is Victory, the Victory tiles are one candidate
\* line, wholly P's, of exactly N tiles, and every other tile is Normal.
C19_VictoryByLastMover ==
    (Live /\ game.outcome.tag = "Victory")
    => LET P == game.outcome.player
           last == coords.value
           annotated == Displayed(game, "Victory")
       IN  /\ P = Mover(Cardinality(OccupiedTiles(game)))
           /\ game.board.tiles[last].occupation_state = Occupied(P)
           /\ last \in annotated
           /\ annotated \in CandidateLines(game.grid_dimensions)
           /\ Owns(game, P, annotated)
           /\ Cardinality(annotated) = game.grid_dimensions
           /\ \A c \in DOMAIN game.board.tiles \ annotated :
                  game.board.tiles[c].display_state = "Normal"

\* Player 2 has won with the sixth move of the game, and the tile of that
\* move is one of the three Victory tiles.
C19_Witness ==
    /\ Live
    /\ game.outcome = Victory(PlayerO)
    /\ Cardinality(OccupiedTiles(game)) = 6
    /\ coords.value \in Displayed(game, "Victory")
    /\ Cardinality(Displayed(game, "Victory")) = 3

----------------------------------------------------------------------------
(* C20 *)

\* C20: never does one player wholly occupy a line while the other wholly
\* occupies another; when the outcome is Victory(P), P and only P owns a
\* line, so every order of evaluating the lines reports P.
C20_OneOwnerOfLines ==
    Live
    => /\ OwnedLines(game, PlayerX) = {} \/ OwnedLines(game, PlayerO) = {}
       /\ game.outcome.tag = "Victory"
          => /\ OwnedLines(game, game.outcome.player) # {}
             /\ \A player \in {PlayerX, PlayerO} \ {game.outcome.player} :
                    OwnedLines(game, player) = {}

\* Player 1 has won by a move that completed two lines.
C20_Witness ==
    /\ Live
    /\ game.outcome = Victory(PlayerX)
    /\ Cardinality(OwnedLines(game, PlayerX)) = 2
    /\ OwnedLines(game, PlayerO) = {}

----------------------------------------------------------------------------
(* C21 *)

\* The tiles of g that player occupies.
TilesOf(g, player) ==
    {c \in DOMAIN g.board.tiles : g.board.tiles[c].occupation_state = Occupied(player)}

----------------------------------------------------------------------------
(* C22 *)

\* The game has reached Draw or a Victory and main has left its loop.
LoopExited ==
    /\ Live
    /\ main_pc = "final"
    /\ game.outcome = Draw \/ game.outcome.tag = "Victory"

\* C22 as stated: the turn number never exceeds N * N, nor does the number
\* of accepted moves; and, the user eventually entering a valid move as long
\* as one is awaited, the game reaches Draw or a Victory and main leaves its
\* loop.
C22_AsStated ==
    /\ [](Live => /\ game.turn_number
                        <= game.grid_dimensions * game.grid_dimensions
                  /\ Cardinality(OccupiedTiles(game))
                        <= game.grid_dimensions * game.grid_dimensions)
    /\ <>LoopExited

====
